---------------------------- MODULE Spec2Model ----------------------------
(***************************************************************************)
(* Autobot.modify_self, the self-patching routine of autobot.py, in its   *)
(* two variants:                                                           *)
(*   "v154611"  src/autobot_backup_20250216154611.py                       *)
(*   "v162647"  src/autobot_backup_20250216162647.py                       *)
(*                                                                         *)
(* autobot.py is a sequence of text lines.  A line is abstracted to what   *)
(* the routine and the Python compiler read of it:                         *)
(*   k    what the text of the line is                                     *)
(*          "class"  class NAME:                  (block header)           *)
(*          "def"    def NAME(...):               (block header)           *)
(*          "def1"   def NAME(...): <statement>   (one-line definition)    *)
(*          "stmt"   a simple statement valid anywhere (pass, x = 1, ...)  *)
(*          "ret"    return ...                                            *)
(*          "sopen"  x = """[text]   opens a triple-quoted string; when nm *)
(*                   is a name the text after the quotes is def NAME(...): *)
(*          "sclose" """             closes the string                     *)
(*          "junk"   text that is no Python at column 0 (a merge marker)   *)
(*          "blank"  empty or whitespace only                              *)
(*   ind  its indentation, in units of four spaces                         *)
(*   nm   the NAME of a class/def/def1 line, NoName otherwise              *)
(* Lines between "sopen" and "sclose" are text of the string literal: the  *)
(* routine's text scans see them, the compiler does not.  Every line is    *)
(* newline-terminated.                                                     *)
(***************************************************************************)
EXTENDS Integers, Sequences, FiniteSets, TLC

VARIABLES variant, offered, file, backups, clock, head, remote, faults,
          calls, pc, function_name, new_code, backup_name, existing_code,
          insert_at, syntax_check, push_result, loaded, result, pre, hist

vars == <<variant, offered, file, backups, clock, head, remote, faults,
          calls, pc, function_name, new_code, backup_name, existing_code,
          insert_at, syntax_check, push_result, loaded, result, pre, hist>>

-----------------------------------------------------------------------------
(* Bounds of the model *)

\* calls of modify_self one caller makes, one after the other
MaxCalls == 2
\* failures of the file system (copy, open) the environment may inject
MaxFaults == 1
\* seconds the wall clock may advance (backup names carry the second)
MaxClock == 1

-----------------------------------------------------------------------------
(* Lines *)

NoName == ""

L(k, ind, nm) == [k |-> k, ind |-> ind, nm |-> nm]

Blank == L("blank", 0, NoName)

\* text.strip().startswith("def ")
StartsWithDef(line) == line.k \in {"def", "def1"}

\* f"def {function_name}(" in line
ContainsDefOf(line, fname) ==
    /\ line.k \in {"def", "def1", "sopen"}
    /\ line.nm = fname

\* line.strip().startswith("class Autobot")
StartsWithClassAutobot(line) == line.k = "class" /\ line.nm = "Autobot"

-----------------------------------------------------------------------------
(* The Python compiler on a file: what `python -m py_compile`, `import` and *)
(* `importlib.reload` make of the text.  Indentation is checked line by     *)
(* line (the first error wins); `return` outside a function is reported     *)
(* only when the file parses.                                               *)

RECURSIVE PopTo(_, _)
PopTo(stack, n) ==
    IF Len(stack) > 1 /\ stack[Len(stack)].ind > n
    THEN PopTo(SubSeq(stack, 1, Len(stack) - 1), n)
    ELSE stack

ParseInit ==
    [stack   |-> << [ind |-> 0, kind |-> "module", nm |-> NoName] >>,
     expect  |-> FALSE,
     hdr     |-> [ind |-> 0, kind |-> "module", nm |-> NoName],
     instr   |-> FALSE,
     err     |-> "none",
     retOut  |-> FALSE,
     bound   |-> FALSE,
     members |-> {},
     methods |-> {},
     line    |-> 0]

\* the INDENT/DEDENT the tokenizer makes of a line's indentation
ParseIndent(st, line) ==
    IF st.expect
    THEN IF line.ind > st.hdr.ind
         THEN [st EXCEPT !.stack = Append(@, [ind |-> line.ind,
                                               kind |-> st.hdr.kind,
                                               nm |-> st.hdr.nm]),
                         !.expect = FALSE]
         ELSE [st EXCEPT !.err = "IndentationError"]
    ELSE IF line.ind > st.stack[Len(st.stack)].ind
         THEN [st EXCEPT !.err = "IndentationError"]
         ELSE LET s == PopTo(st.stack, line.ind)
              IN  IF s[Len(s)].ind = line.ind
                  THEN [st EXCEPT !.stack = s]
                  ELSE [st EXCEPT !.err = "IndentationError"]

\* a definition made directly in the body of the module-level class Autobot
InAutobot(st) ==
    /\ Len(st.stack) = 2
    /\ st.stack[2].kind = "class"
    /\ st.stack[2].nm = "Autobot"

ParseStatement(st, line) ==
    CASE line.k = "class" ->
            [st EXCEPT !.expect = TRUE,
                       !.hdr = [ind |-> line.ind, kind |-> "class", nm |-> line.nm],
                       !.bound = @ \/ (Len(st.stack) = 1 /\ line.nm = "Autobot"),
                       !.members = IF Len(st.stack) = 1 /\ line.nm = "Autobot"
                                   THEN {} ELSE @,
                       !.methods = IF Len(st.stack) = 1 /\ line.nm = "Autobot"
                                   THEN {} ELSE @]
      [] line.k = "def" ->
            [st EXCEPT !.expect = TRUE,
                       !.hdr = [ind |-> line.ind, kind |-> "def", nm |-> line.nm],
                       !.members = IF InAutobot(st) THEN @ \cup {line.nm} ELSE @,
                       !.methods = IF InAutobot(st) THEN @ \cup {st.line} ELSE @]
      [] line.k = "def1" ->
            [st EXCEPT !.members = IF InAutobot(st) THEN @ \cup {line.nm} ELSE @,
                       !.methods = IF InAutobot(st) THEN @ \cup {st.line} ELSE @]
      [] line.k = "ret" ->
            [st EXCEPT !.retOut = @ \/ st.stack[Len(st.stack)].kind # "def"]
      [] line.k \in {"sopen", "sclose"} ->
            [st EXCEPT !.instr = TRUE]
      [] line.k = "junk" ->
            [st EXCEPT !.err = "SyntaxError"]
      [] OTHER -> st

ParseLine(st0, line) ==
    LET st == [st0 EXCEPT !.line = @ + 1]
    IN  IF st.err # "none" THEN st
        ELSE IF st.instr
             THEN IF line.k = "sclose" THEN [st EXCEPT !.instr = FALSE] ELSE st
        ELSE IF line.k = "blank" THEN st
        ELSE LET t == ParseIndent(st, line)
             IN  IF t.err # "none" THEN t ELSE ParseStatement(t, line)

RECURSIVE ParseFrom(_, _, _)
ParseFrom(st, lines, i) ==
    IF i > Len(lines) THEN st
    ELSE ParseFrom(ParseLine(st, lines[i]), lines, i + 1)

Parse(lines) == ParseFrom(ParseInit, lines, 1)

\* "ok", "IndentationError" or "SyntaxError"
Compile(lines) ==
    LET st == Parse(lines)
    IN  IF st.err # "none" THEN st.err
        ELSE IF st.expect THEN "IndentationError"
        ELSE IF st.instr \/ st.retOut THEN "SyntaxError"
        ELSE "ok"

\* the names defined as members of the module's class Autobot
ClassMembers(lines) == Parse(lines).members

\* the module binds the name Autobot to a class
DefinesAutobot(lines) == Parse(lines).bound

-----------------------------------------------------------------------------
(* The text steps of modify_self *)

\* a duplicate check that looks at block headers only
FunctionExistsHeaderOnly(lines, fname) ==
    \E i \in 1..Len(lines) : lines[i].k = "def" /\ lines[i].nm = fname

\* any(f"def {function_name}(" in line for line in existing_code)
FunctionExists(lines, fname) ==
    \E i \in 1..Len(lines) : ContainsDefOf(lines[i], fname)

\* the index of the first line that starts with "class Autobot"; 0 is None
ClassIndex(lines) ==
    LET hits == {i \in 1..Len(lines) : StartsWithClassAutobot(lines[i])}
    IN  IF hits = {} THEN 0
        ELSE CHOOSE i \in hits : \A j \in hits : i <= j

\* a scan that stops at the first line that starts with "def "
FirstFunctionIndex(lines, class_index) ==
    LET hits == {i \in (class_index + 1)..Len(lines) : StartsWithDef(lines[i])}
    IN  IF hits = {} THEN class_index
        ELSE CHOOSE i \in hits : \A j \in hits : i <= j

\* the last line after class_index that starts with "def ", else class_index
LastFunctionIndex(lines, class_index) ==
    LET hits == {i \in (class_index + 1)..Len(lines) : StartsWithDef(lines[i])}
    IN  IF hits = {} THEN class_index
        ELSE CHOOSE i \in hits : \A j \in hits : j <= i

RECURSIVE DropLeadingBlank(_)
DropLeadingBlank(code) ==
    IF code # <<>> /\ Head(code).k = "blank"
    THEN DropLeadingBlank(Tail(code))
    ELSE code

RECURSIVE DropTrailingBlank(_)
DropTrailingBlank(code) ==
    IF code # <<>> /\ code[Len(code)].k = "blank"
    THEN DropTrailingBlank(SubSeq(code, 1, Len(code) - 1))
    ELSE code

\* new_code.strip().split("\n"): blank lines at both ends go, the first line
\* loses its indentation, and the empty text splits into one empty line
StripSplit(code) ==
    LET c == DropTrailingBlank(DropLeadingBlank(code))
    IN  IF c = <<>> THEN << Blank >>
        ELSE [i \in 1..Len(c) |-> IF i = 1 THEN [c[i] EXCEPT !.ind = 0] ELSE c[i]]

\* new_code_lines[0].strip().startswith("def ")
StartsWithDefinition(new_code_lines) == StartsWithDef(new_code_lines[1])

\* v154611: "    " + line, the relative indentation kept
IndentedCode(new_code_lines) ==
    [i \in 1..Len(new_code_lines) |->
        IF new_code_lines[i].k = "blank" THEN Blank
        ELSE [new_code_lines[i] EXCEPT !.ind = @ + 1]]

\* v162647: "    " + line.lstrip(), every line at four spaces
FormattedCode(new_code_lines) ==
    [i \in 1..Len(new_code_lines) |->
        IF new_code_lines[i].k = "blank" THEN Blank
        ELSE [new_code_lines[i] EXCEPT !.ind = 1]]

\* existing_code.insert(last_function_index + 1, "\n" + block + "\n")
InsertBlock(lines, last_function_index, block) ==
    SubSeq(lines, 1, last_function_index)
        \o << Blank >> \o block
        \o SubSeq(lines, last_function_index + 1, Len(lines))

\* what run_command returns for `python -m py_compile autobot.py`
PyCompileOutput(lines) ==
    CASE Compile(lines) = "ok"               -> ""
      [] Compile(lines) = "SyntaxError"      -> "SyntaxError: invalid syntax"
      [] Compile(lines) = "IndentationError" -> "Sorry: IndentationError"

\* "SyntaxError" in syntax_check
MentionsSyntaxError(out) == out = "SyntaxError: invalid syntax"

\* attributes every instance has from object
ObjectAttrs == {"__str__"}

\* hasattr(test_bot, function_name) on an instance of the loaded class
HasAttr(lines, fname) == fname \in ClassMembers(lines) \cup ObjectAttrs

\* a rebase that stops on a conflict leaves its markers in the file
ConflictMarked(lines) == << L("junk", 0, NoName) >> \o lines

-----------------------------------------------------------------------------
(* The files and the patch requests the model draws from *)

Variants == {"v154611", "v162647"}

Procs == {1, 2}

\* class Autobot with one one-line method
FileOneLiner ==
    << L("class", 0, "Autobot"), L("def1", 1, "run") >>

\* class Autobot whose last method has its body on the following line
FileMethodBody ==
    << L("class", 0, "Autobot"), L("def", 1, "run"), L("stmt", 2, NoName) >>

\* a module-level function with a body after the class
FileHelperAfter ==
    << L("class", 0, "Autobot"), L("def1", 1, "run"),
       L("def", 0, "helper"), L("ret", 1, NoName) >>

\* a one-line definition nested in the last method
FileNestedDef ==
    << L("class", 0, "Autobot"), L("def", 1, "run"), L("def1", 2, "inner") >>

\* the __main__ block of v154611: a string literal whose text holds a def line
FileMainString ==
    << L("class", 0, "Autobot"), L("def1", 1, "run"),
       L("sopen", 0, NoName), L("def", 0, "auto_fix"), L("ret", 1, NoName),
       L("sclose", 0, NoName) >>

\* another class after Autobot
FileOtherClass ==
    << L("class", 0, "Autobot"), L("def1", 1, "run"),
       L("class", 0, "Other"), L("def1", 1, "work") >>

\* an autobot.py in which no line starts with "class Autobot"
FileNoAnchor ==
    << L("class", 0, "Other"), L("def1", 1, "run") >>

Files == {FileOneLiner, FileMethodBody, FileHelperAfter, FileNestedDef,
          FileMainString, FileOtherClass, FileNoAnchor}

FunctionNames == {"greet", "run", "__str__"}

\* def NAME(self): return "hi"
PatchOneLiner(fname) == << L("def1", 0, fname) >>

\* def NAME(self):
\*     return "..."
\* written with a blank first line, as the __main__ block of v154611 does
PatchWithBody(fname) ==
    << Blank, L("def", 0, fname), L("ret", 1, NoName) >>

\* two one-line definitions
PatchTwoDefs(fname) == << L("def1", 0, fname), L("def1", 0, "extra") >>

\* a one-line definition followed by a return at the same indentation
PatchStrayReturn(fname) == << L("def1", 0, fname), L("ret", 0, NoName) >>

\* a statement and no def line
PatchNoDef == << L("stmt", 0, NoName) >>

\* the empty text
PatchEmpty == << >>

WellFormed(fname) == {PatchOneLiner(fname), PatchWithBody(fname)}

Patches(fname) ==
    WellFormed(fname)
        \cup {PatchTwoDefs(fname), PatchStrayReturn(fname), PatchNoDef, PatchEmpty}

\* the requests of the one-caller specifications
AllRequests ==
    UNION {{[fn |-> fname, code |-> code] : code \in Patches(fname)} :
              fname \in FunctionNames}

\* the requests two concurrent callers draw from
ConcurrentRequests ==
    {[fn |-> "greet", code |-> PatchOneLiner("greet")],
     [fn |-> "hello", code |-> PatchOneLiner("hello")],
     [fn |-> "hello", code |-> PatchWithBody("hello")]}

NoFile == << L("nofile", 0, NoName) >>

Returned == {"exists", "no_class", "must_start_with_def", "syntax_rollback",
             "not_added_rollback", "error_rollback", "success"}

\* the results that are failure messages
Failures == Returned \ {"success"}

-----------------------------------------------------------------------------
(* State                                                                    *)
(*   variant        which of the two modify_self is running                 *)
(*   offered        the requests the callers may make                       *)
(*   file           autobot.py on disk                                      *)
(*   backups        the backup files, by the second in their name           *)
(*   clock          the wall clock, in seconds                              *)
(*   head, remote   autobot.py in the last local commit and on origin/main  *)
(*   faults         failures the environment may still inject               *)
(*   calls          calls each caller may still make                        *)
(*   pc             where each caller is inside modify_self                 *)
(*   function_name, new_code, backup_name, syntax_check, push_result        *)
(*                  the locals of the running call                          *)
(*   existing_code  the lines of the running or last call, once the block   *)
(*                  is inserted: what it writes                             *)
(*   insert_at      last_function_index of the running or last call         *)
(*   loaded         the text importlib.reload executed                      *)
(*   result         how the last call ended: a returned message, "raised"   *)
(*                  (an exception left modify_self) or "restarted" (os.execv*)
(*                  replaced the process)                                   *)
(*   pre            autobot.py when the call started                        *)
(*   hist           the calls that ended patched, in order                  *)
(***************************************************************************)

InitWith(files, requests, nfaults, ncalls) ==
    /\ variant \in Variants
    /\ offered = requests
    /\ file \in files
    /\ backups = [t \in 0..MaxClock |-> NoFile]
    /\ clock = 0
    /\ head = file
    /\ remote = file
    /\ faults = nfaults
    /\ calls = ncalls
    /\ pc = [p \in Procs |-> "idle"]
    /\ function_name = [p \in Procs |-> NoName]
    /\ new_code = [p \in Procs |-> << >>]
    /\ backup_name = [p \in Procs |-> 0]
    /\ existing_code = [p \in Procs |-> << >>]
    /\ insert_at = [p \in Procs |-> 0]
    /\ syntax_check = [p \in Procs |-> ""]
    /\ push_result = [p \in Procs |-> ""]
    /\ loaded = [p \in Procs |-> << >>]
    /\ result = [p \in Procs |-> "none"]
    /\ pre = [p \in Procs |-> << >>]
    /\ hist = << >>

\* one caller, MaxCalls calls one after the other, no failure injected
Init ==
    InitWith(Files, AllRequests, 0, [p \in Procs |-> IF p = 1 THEN MaxCalls ELSE 0])

\* the same caller in an environment that may fail MaxFaults operations
InitFaults ==
    InitWith(Files, AllRequests, MaxFaults,
             [p \in Procs |-> IF p = 1 THEN MaxCalls ELSE 0])

\* two callers, one call each, at the same time on the same autobot.py
InitConcurrent ==
    InitWith({FileOneLiner}, ConcurrentRequests, 0, [p \in Procs |-> 1])

Succeeded(r) == r \in {"success", "restarted"}

\* the call of p ends with res; its locals die with it
End(p, res) ==
    /\ pc' = [pc EXCEPT ![p] = "idle"]
    /\ result' = [result EXCEPT ![p] = res]
    /\ hist' = IF Succeeded(res)
               THEN Append(hist, [fn |-> function_name[p], at |-> insert_at[p],
                                  len |-> Len(StripSplit(new_code[p]))])
               ELSE hist
    /\ backup_name' = [backup_name EXCEPT ![p] = 0]
    /\ UNCHANGED existing_code
    /\ syntax_check' = [syntax_check EXCEPT ![p] = ""]
    /\ push_result' = [push_result EXCEPT ![p] = ""]
    /\ loaded' = [loaded EXCEPT ![p] = << >>]

\* the call of p goes on at label
Goto(p, label) ==
    /\ pc' = [pc EXCEPT ![p] = label]
    /\ UNCHANGED <<result, hist>>

\* the environment fails the operation at hand
Fault ==
    /\ faults > 0
    /\ faults' = faults - 1

\* a rollback that copies nothing
RestoreSkipped(p) == file' = file

\* shutil.copy(backup_name, script_path)
Restore(p) == file' = backups[backup_name[p]]

-----------------------------------------------------------------------------
(* modify_self, step by step *)

\* a modify_self that waits until no other call is running
ModifySelfLocked(p) ==
    /\ \A q \in Procs \ {p} : pc[q] = "idle"
    /\ pc[p] = "idle"
    /\ calls[p] > 0
    /\ \E request \in offered :
          /\ function_name' = [function_name EXCEPT ![p] = request.fn]
          /\ new_code' = [new_code EXCEPT ![p] = request.code]
    /\ calls' = [calls EXCEPT ![p] = @ - 1]
    /\ pre' = [pre EXCEPT ![p] = file]
    /\ pc' = [pc EXCEPT ![p] = "backup"]
    /\ result' = [result EXCEPT ![p] = "running"]
    /\ insert_at' = [insert_at EXCEPT ![p] = 0]
    /\ existing_code' = [existing_code EXCEPT ![p] = << >>]
    /\ UNCHANGED <<variant, offered, file, backups, clock, head, remote, faults,
                   backup_name, syntax_check, push_result, loaded, hist>>

\* a caller enters modify_self(new_code, function_name)
ModifySelf(p) ==
    /\ pc[p] = "idle"
    /\ calls[p] > 0
    /\ \E request \in offered :
          /\ function_name' = [function_name EXCEPT ![p] = request.fn]
          /\ new_code' = [new_code EXCEPT ![p] = request.code]
    /\ calls' = [calls EXCEPT ![p] = @ - 1]
    /\ pre' = [pre EXCEPT ![p] = file]
    /\ pc' = [pc EXCEPT ![p] = "backup"]
    /\ result' = [result EXCEPT ![p] = "running"]
    /\ insert_at' = [insert_at EXCEPT ![p] = 0]
    /\ existing_code' = [existing_code EXCEPT ![p] = << >>]
    /\ UNCHANGED <<variant, offered, file, backups, clock, head, remote, faults,
                   backup_name, syntax_check, push_result, loaded, hist>>

\* backup_script(), called before the try: its exception leaves modify_self
BackupScript(p) ==
    /\ pc[p] = "backup"
    /\ \/ /\ backups' = [backups EXCEPT ![clock] = file]
          /\ backup_name' = [backup_name EXCEPT ![p] = clock]
          /\ Goto(p, "read")
          /\ UNCHANGED <<faults, existing_code, syntax_check, push_result, loaded>>
       \/ /\ Fault
          /\ End(p, "raised")
          /\ UNCHANGED backups
    /\ UNCHANGED <<variant, offered, file, clock, head, remote, calls, function_name,
                   new_code, insert_at, pre>>

\* readlines, the duplicate check, the anchor, the insertion point, the
\* (v162647) def check, the indentation and the insert into existing_code
ReadExisting(p) ==
    /\ pc[p] = "read"
    /\ LET class_index == ClassIndex(file)
           last_function_index == LastFunctionIndex(file, class_index)
           new_code_lines == StripSplit(new_code[p])
           block == IF variant = "v162647" THEN FormattedCode(new_code_lines)
                    ELSE IndentedCode(new_code_lines)
       IN  \/ /\ Fault
              /\ Goto(p, "handler")
              /\ UNCHANGED <<existing_code, insert_at, backup_name,
                             syntax_check, push_result, loaded>>
           \/ /\ FunctionExists(file, function_name[p])
              /\ End(p, "exists")
              /\ UNCHANGED <<faults, insert_at>>
           \/ /\ ~FunctionExists(file, function_name[p])
              /\ class_index = 0
              /\ End(p, "no_class")
              /\ UNCHANGED <<faults, insert_at>>
           \/ /\ ~FunctionExists(file, function_name[p])
              /\ class_index # 0
              /\ variant = "v162647"
              /\ ~StartsWithDefinition(new_code_lines)
              /\ insert_at' = [insert_at EXCEPT ![p] = last_function_index]
              /\ End(p, "must_start_with_def")
              /\ UNCHANGED faults
           \/ /\ ~FunctionExists(file, function_name[p])
              /\ class_index # 0
              /\ variant = "v162647" => StartsWithDefinition(new_code_lines)
              /\ insert_at' = [insert_at EXCEPT ![p] = last_function_index]
              /\ existing_code' = [existing_code EXCEPT ![p] =
                                      InsertBlock(file, last_function_index, block)]
              /\ Goto(p, "write")
              /\ UNCHANGED <<faults, backup_name, syntax_check, push_result, loaded>>
    /\ UNCHANGED <<variant, offered, file, backups, clock, head, remote, calls,
                   function_name, new_code, pre>>

\* open(script_path, "w"); file.writelines(existing_code)
WriteScript(p) ==
    /\ pc[p] = "write"
    /\ \/ /\ file' = existing_code[p]
          /\ Goto(p, IF variant = "v162647" THEN "syntax" ELSE "commit")
          /\ UNCHANGED faults
       \/ /\ Fault
          /\ file' = SubSeq(existing_code[p], 1, insert_at[p])
          /\ Goto(p, "handler")
    /\ UNCHANGED <<variant, offered, backups, clock, head, remote, calls, function_name,
                   new_code, backup_name, existing_code, insert_at,
                   syntax_check, push_result, loaded, pre>>

\* v162647: run_command("python -m py_compile autobot.py"), which returns
\* the compiler's text, or the shell's when the command could not run
SyntaxCheck(p) ==
    /\ pc[p] = "syntax"
    /\ \E out \in {PyCompileOutput(file), "Command failed"} :
          /\ \/ out = PyCompileOutput(file) /\ UNCHANGED faults
             \/ out = "Command failed" /\ Fault
          /\ syntax_check' = [syntax_check EXCEPT ![p] = out]
          /\ Goto(p, IF MentionsSyntaxError(out) THEN "rollback_syntax" ELSE "commit")
    /\ UNCHANGED <<variant, offered, file, backups, clock, head, remote, calls,
                   function_name, new_code, backup_name, existing_code,
                   insert_at, push_result, loaded, pre>>

\* v162647: the rollback after "SyntaxError" was found in the output
RollbackSyntax(p) ==
    /\ pc[p] = "rollback_syntax"
    /\ \/ /\ Restore(p)
          /\ End(p, "syntax_rollback")
          /\ UNCHANGED faults
       \/ /\ Fault
          /\ Goto(p, "handler")
          /\ UNCHANGED <<file, backup_name, existing_code, syntax_check,
                         push_result, loaded>>
    /\ UNCHANGED <<variant, offered, backups, clock, head, remote, calls, function_name,
                   new_code, insert_at, pre>>

\* git_commit: git add -A and git commit, whose failure is a returned text
GitCommit(p) ==
    /\ pc[p] = "commit"
    /\ \E committed \in BOOLEAN : head' = IF committed THEN file ELSE head
    /\ Goto(p, "push")
    /\ UNCHANGED <<variant, offered, file, backups, clock, remote, faults, calls,
                   function_name, new_code, backup_name, existing_code,
                   insert_at, syntax_check, push_result, loaded, pre>>

\* a git_push that rolls the file back when the push did not go through
GitPushRollsBack(p) ==
    /\ pc[p] = "push"
    /\ \E out \in {"pushed", "failed"} :
          /\ remote' = IF out = "pushed" THEN head ELSE remote
          /\ IF out = "pushed"
             THEN /\ Goto(p, "reload")
                  /\ UNCHANGED <<file, backup_name, syntax_check, push_result,
                                 loaded, existing_code>>
             ELSE /\ Restore(p)
                  /\ End(p, "error_rollback")
    /\ UNCHANGED <<variant, offered, backups, clock, head, faults, calls,
                   function_name, new_code, insert_at, pre>>

\* git_push: git push origin main; v162647 goes on to pull when the text
\* says "rejected"
GitPush(p) ==
    /\ pc[p] = "push"
    /\ \E out \in {"pushed", "failed", "rejected"} :
          /\ push_result' = [push_result EXCEPT ![p] = out]
          /\ remote' = IF out = "pushed" THEN head ELSE remote
          /\ Goto(p, IF variant = "v162647" /\ out = "rejected"
                     THEN "pull" ELSE "reload")
    /\ UNCHANGED <<variant, offered, file, backups, clock, head, faults, calls,
                   function_name, new_code, backup_name, existing_code,
                   insert_at, syntax_check, loaded, pre>>

\* v162647: git pull origin main --rebase, which rewrites the working tree
\* when the rebase stops on a conflict in autobot.py
GitPullRebase(p) ==
    /\ pc[p] = "pull"
    /\ \E conflict \in BOOLEAN :
          /\ file' = IF conflict THEN ConflictMarked(file) ELSE file
          /\ push_result' = [push_result EXCEPT ![p] =
                                IF conflict THEN "conflict" ELSE "rebased"]
    /\ Goto(p, "push_retry")
    /\ UNCHANGED <<variant, offered, backups, clock, head, remote, faults, calls,
                   function_name, new_code, backup_name, existing_code,
                   insert_at, syntax_check, loaded, pre>>

\* v162647: the second git push origin main
GitPushRetry(p) ==
    /\ pc[p] = "push_retry"
    /\ \E pushed \in BOOLEAN :
          /\ pushed => push_result[p] = "rebased"
          /\ remote' = IF pushed THEN head ELSE remote
    /\ Goto(p, "reload")
    /\ UNCHANGED <<variant, offered, file, backups, clock, head, faults, calls,
                   function_name, new_code, backup_name, existing_code,
                   insert_at, syntax_check, push_result, loaded, pre>>

\* importlib.reload(autobot): v154611 never imported the name autobot
\* (NameError); v162647 imports it first, which compiles and runs the file
Reload(p) ==
    /\ pc[p] = "reload"
    /\ \/ /\ variant = "v154611" \/ Compile(file) # "ok"
          /\ Goto(p, "handler")
          /\ UNCHANGED <<faults, loaded>>
       \/ /\ variant = "v162647"
          /\ Compile(file) = "ok"
          /\ loaded' = [loaded EXCEPT ![p] = file]
          /\ Goto(p, "verify")
          /\ UNCHANGED faults
       \/ /\ variant = "v162647"
          /\ Compile(file) = "ok"
          /\ Fault
          /\ Goto(p, "handler")
          /\ UNCHANGED loaded
    /\ UNCHANGED <<variant, offered, file, backups, clock, head, remote, calls,
                   function_name, new_code, backup_name, existing_code,
                   insert_at, syntax_check, push_result, pre>>

\* test_bot = autobot.Autobot(); hasattr(test_bot, function_name); v154611
\* returns its success message when the attribute is there
Verify(p) ==
    /\ pc[p] = "verify"
    /\ \/ /\ ~DefinesAutobot(loaded[p])
          /\ Goto(p, "handler")
          /\ UNCHANGED <<backup_name, existing_code, syntax_check,
                         push_result, loaded>>
       \/ /\ DefinesAutobot(loaded[p])
          /\ ~HasAttr(loaded[p], function_name[p])
          /\ Goto(p, "rollback_verify")
          /\ UNCHANGED <<backup_name, existing_code, syntax_check,
                         push_result, loaded>>
       \/ /\ DefinesAutobot(loaded[p])
          /\ HasAttr(loaded[p], function_name[p])
          /\ variant = "v162647"
          /\ Goto(p, "execv")
          /\ UNCHANGED <<backup_name, existing_code, syntax_check,
                         push_result, loaded>>
       \/ /\ DefinesAutobot(loaded[p])
          /\ HasAttr(loaded[p], function_name[p])
          /\ variant = "v154611"
          /\ End(p, "success")
    /\ UNCHANGED <<variant, offered, file, backups, clock, head, remote, faults, calls,
                   function_name, new_code, insert_at, pre>>

\* the rollback after hasattr said no
RollbackVerify(p) ==
    /\ pc[p] = "rollback_verify"
    /\ \/ /\ Restore(p)
          /\ End(p, "not_added_rollback")
          /\ UNCHANGED faults
       \/ /\ Fault
          /\ Goto(p, "handler")
          /\ UNCHANGED <<file, backup_name, existing_code, syntax_check,
                         push_result, loaded>>
    /\ UNCHANGED <<variant, offered, backups, clock, head, remote, calls, function_name,
                   new_code, insert_at, pre>>

\* v162647: os.execv(sys.executable, ...) replaces the process and does not
\* return; when it cannot, its OSError goes to the handler
Restart(p) ==
    /\ pc[p] = "execv"
    /\ \/ /\ End(p, "restarted")
          /\ UNCHANGED faults
       \/ /\ Fault
          /\ Goto(p, "handler")
          /\ UNCHANGED <<backup_name, existing_code, syntax_check,
                         push_result, loaded>>
    /\ UNCHANGED <<variant, offered, file, backups, clock, head, remote, calls,
                   function_name, new_code, insert_at, pre>>

\* except Exception: shutil.copy(backup_name, script_path) and the message;
\* an exception of the copy leaves modify_self
Handler(p) ==
    /\ pc[p] = "handler"
    /\ \/ /\ Restore(p)
          /\ End(p, "error_rollback")
          /\ UNCHANGED faults
       \/ /\ Fault
          /\ End(p, "raised")
          /\ UNCHANGED file
    /\ UNCHANGED <<variant, offered, backups, clock, head, remote, calls, function_name,
                   new_code, insert_at, pre>>

\* a second passes; the clock is read by backup_script alone
Tick ==
    /\ clock < MaxClock
    /\ \E p \in Procs : pc[p] = "backup"
    /\ clock' = clock + 1
    /\ UNCHANGED <<variant, offered, file, backups, head, remote, faults, calls, pc,
                   function_name, new_code, backup_name, existing_code,
                   insert_at, syntax_check, push_result, loaded, result, pre,
                   hist>>

Step(p) ==
    \/ ModifySelf(p)
    \/ BackupScript(p)
    \/ ReadExisting(p)
    \/ WriteScript(p)
    \/ SyntaxCheck(p)
    \/ RollbackSyntax(p)
    \/ GitCommit(p)
    \/ GitPush(p)
    \/ GitPullRebase(p)
    \/ GitPushRetry(p)
    \/ Reload(p)
    \/ Verify(p)
    \/ RollbackVerify(p)
    \/ Restart(p)
    \/ Handler(p)

Next == (\E p \in Procs : Step(p)) \/ Tick

Spec == Init /\ [][Next]_vars

SpecFaults == InitFaults /\ [][Next]_vars

SpecConcurrent == InitConcurrent /\ [][Next]_vars

-----------------------------------------------------------------------------
(* What the claims speak of *)

\* a call of p has ended
Ended(p) == pc[p] = "idle" /\ result[p] # "none"

\* the lines of the text that are definitions of fname
DefLinesOf(lines, fname) ==
    {i \in 1..Len(lines) : lines[i].k \in {"def", "def1"} /\ lines[i].nm = fname}

DefinedIn(lines, fname) == DefLinesOf(lines, fname) # {}

\* the call of p wrote a rewritten file
Wrote(p) == existing_code[p] # << >>

\* the lines that define the members of class Autobot
MethodLines(lines) == Parse(lines).methods

\* the insertion point the design asks for: the last line that defines a
\* member of class Autobot, the class line when it has none
LastMethodLine(lines) ==
    LET ms == MethodLines(lines)
    IN  IF ms = {} THEN ClassIndex(lines)
        ELSE CHOOSE i \in ms : \A j \in ms : j <= i

GitLabels == {"commit", "push", "pull", "push_retry"}

-----------------------------------------------------------------------------
(* C1 *)

\* C1: whenever a call of modify_self has returned a failure message
\* (duplicate, missing anchor, malformed patch, syntax error, failed
\* verification, handled exception), autobot.py is byte for byte what it was
\* when the call started, also when the environment failed an operation
C1_FailureRestoresFile ==
    \A p \in Procs : (Ended(p) /\ result[p] \in Failures) => file = pre[p]

\* a call that wrote and committed its rewritten file, then failed and
\* rolled back
C1_Witness ==
    /\ Ended(1)
    /\ result[1] \in {"syntax_rollback", "not_added_rollback", "error_rollback"}
    /\ Wrote(1)
    /\ file # existing_code[1]
    /\ file = pre[1]

-----------------------------------------------------------------------------
(* C2 *)

\* C2: when a request with a well-formed body for a function the file does
\* not define ends in success, the file compiles and holds exactly one
\* definition of the function, a member of class Autobot
C2_SuccessIsOneClassMember ==
    \A p \in Procs :
        (/\ Ended(p)
         /\ Succeeded(result[p])
         /\ new_code[p] \in WellFormed(function_name[p])
         /\ ~DefinedIn(pre[p], function_name[p]))
        => /\ Compile(file) = "ok"
           /\ Cardinality(DefLinesOf(file, function_name[p])) = 1
           /\ function_name[p] \in ClassMembers(file)

-----------------------------------------------------------------------------
(* C3 *)

-----------------------------------------------------------------------------
(* C4 *)

\* C4: (v162647) whenever the rewritten file does not compile, indentation
\* errors included, the call returns the syntax-validation failure and the
\* file is the one the call started with
C4_InvalidRewriteIsSyntaxFailure ==
    \A p \in Procs :
        (/\ variant = "v162647"
         /\ Ended(p)
         /\ Wrote(p)
         /\ Compile(existing_code[p]) # "ok")
        => (result[p] = "syntax_rollback" /\ file = pre[p])

-----------------------------------------------------------------------------
(* C5 *)

\* C5: every call of modify_self ends with a returned message: no exception
\* leaves it, not from the backup, not from the handler's rollback copy, and
\* the success path returns
C5_AlwaysReturnsMessage ==
    \A p \in Procs : Ended(p) => result[p] \in Returned

-----------------------------------------------------------------------------
(* C6 *)

\* C6: a body whose first line does not begin a function definition (the
\* empty body included) is rejected with the malformed-patch message before
\* anything is written, for a function name the file does not define and a
\* file that has the anchor
C6_MalformedRejectedBeforeWrite ==
    \A p \in Procs :
        (/\ Ended(p)
         /\ ~StartsWithDefinition(StripSplit(new_code[p]))
         /\ ~FunctionExists(pre[p], function_name[p])
         /\ ClassIndex(pre[p]) # 0)
        => (result[p] = "must_start_with_def" /\ ~Wrote(p) /\ file = pre[p])

-----------------------------------------------------------------------------
(* C7 *)

\* C7: no git step of modify_self (add, commit, push, pull --rebase, the
\* second push) changes autobot.py, whatever its outcome
C7_GitNeverChangesFile ==
    [][(\E p \in Procs : pc[p] \in GitLabels) => file' = file]_vars

\* C7, amended: git add, commit and both pushes leave autobot.py and the
\* call's result alone and lead on to the reload whatever they return; the
\* pull --rebase after a rejected push rolls nothing back either, but may
\* leave the file with the markers of a conflict
C7_OnlyPullChangesFile ==
    [][\A p \in Procs :
          /\ pc[p] \in {"commit", "push", "push_retry"}
                => /\ file' = file
                   /\ pc'[p] \in GitLabels \cup {"reload"}
                   /\ result' = result
          /\ pc[p] = "pull"
                => /\ file' \in {file, ConflictMarked(file)}
                   /\ pc'[p] = "push_retry"
                   /\ result' = result]_vars

\* the commit and the push both failed and the call goes on to reload the
\* file it wrote
C7_Witness ==
    /\ pc[1] = "reload"
    /\ push_result[1] = "failed"
    /\ head = pre[1]
    /\ file = existing_code[1]
    /\ file # pre[1]

-----------------------------------------------------------------------------
(* C8 *)

\* C8: when an earlier call patched the file, the insertion point of the
\* next call that gets to insert is the definition line of the method the
\* earlier call inserted, whatever the earlier patch's body held
C8_SecondInsertsAtFirstMethod ==
    \A p \in Procs :
        (pc[p] = "write" /\ hist # << >>)
        => LET h == hist[Len(hist)]
           IN  /\ insert_at[p] = h.at + 2
               /\ file[insert_at[p]].nm = h.fn

\* C8, amended: the insertion point is the last line beginning with "def "
\* of the block the earlier call inserted; it is the definition line of the
\* earlier call's method when that block has no other such line
C8_SecondInsertsInFirstBlock ==
    \A p \in Procs :
        (pc[p] = "write" /\ hist # << >>)
        => LET h  == hist[Len(hist)]
               lo == h.at + 2
               hi == h.at + 1 + h.len
               at == insert_at[p]
           IN  /\ at \in lo..hi
               /\ StartsWithDef(file[at])
               /\ \A j \in (at + 1)..Len(file) : ~StartsWithDef(file[j])
               /\ (\A j \in (lo + 1)..hi : ~StartsWithDef(file[j]))
                     => (at = lo /\ file[at].nm = h.fn)

\* the second call, with another name, inserts after the method the first
\* call added
C8_Witness ==
    /\ pc[1] = "write"
    /\ Len(hist) = 1
    /\ function_name[1] # hist[1].fn
    /\ insert_at[1] = hist[1].at + 2
    /\ file[insert_at[1]].nm = hist[1].fn

-----------------------------------------------------------------------------
(* C9 *)

\* C9: modify_self takes no lock: wherever one caller is inside modify_self,
\* another caller with a call to make can enter it
C9_NoLock ==
    \A p \in Procs : (pc[p] = "idle" /\ calls[p] > 0) => ENABLED ModifySelf(p)

\* both calls were reported as added, under different names, and the file
\* lacks the function of one of them: no serial order ends so
C9_Witness ==
    /\ Ended(1) /\ Ended(2)
    /\ Succeeded(result[1]) /\ Succeeded(result[2])
    /\ function_name[1] # function_name[2]
    /\ ~DefinedIn(file, function_name[1])
    /\ DefinedIn(file, function_name[2])

-----------------------------------------------------------------------------
(* C10 *)

\* C10: the insertion point modify_self computes is the last line that
\* defines a member of class Autobot (never a def line after the class, in a
\* string literal or nested deeper), and the class line when it has none
C10_InsertionPointIsLastMethod ==
    \A p \in Procs : pc[p] = "write" => insert_at[p] = LastMethodLine(file)

-----------------------------------------------------------------------------
(* C11 *)

\* C11: git add/commit/push is reached only after the rewritten autobot.py
\* has passed the compile check: whenever a call stands at the commit or at
\* a push, the file it wrote is one that compiles
C11_CommitOnlyAfterCompileCheck ==
    \A p \in Procs :
        pc[p] \in {"commit", "push"} => Compile(existing_code[p]) = "ok"

-----------------------------------------------------------------------------
(* C12 *)

\* the names the text defines
DefinedNames(lines) ==
    {lines[i].nm : i \in {j \in 1..Len(lines) : lines[j].k \in {"def", "def1"}}}

\* C12: once every call has ended, the committed and the pushed autobot.py
\* define no function that the working autobot.py does not define: a call
\* that ended by restoring the backup left no commit or push of its patch
C12_CommittedNeverAheadOfFile ==
    (\A p \in Procs : pc[p] = "idle") =>
        /\ DefinedNames(head) \subseteq DefinedNames(file)
        /\ DefinedNames(remote) \subseteq DefinedNames(file)

=============================================================================
